---- MODULE Spec2Model ----
(***************************************************************************)
(* State-machine model of the FOSSology scheduler core                     *)
(* (src/src/scheduler/agent/scheduler.c): the signal bridge                *)
(* (scheduler_sig_handle / scheduler_signal), the configuration events     *)
(* and the scheduling tick scheduler_update.                               *)
(***************************************************************************)
EXTENDS Integers, Sequences, FiniteSets, TLC

(* ---------------------------------------------------------------------- *)
(* Bounds of the model                                                     *)
(* ---------------------------------------------------------------------- *)
MaxJobs == 3

MaxReloads == 2

MaxChildren == 2

MaxLines == 1

MaxTime == 7
(* Longest file content and largest offset argument of the license scan.   *)
MaxText == 5
MaxOffset == 2
(* Longest string of the copyright scan, most matches of one scan, and     *)
(* most passes of the loop over the lines of one statement.                *)
MaxString == 4
MaxMatches == 3
MaxLinePasses == 6

(* The update interval of the SCHEDULER group of the configuration, in     *)
(* seconds.                                                                *)
CONF_agent_update_interval == 2

(* ---------------------------------------------------------------------- *)
(* Values                                                                  *)
(* ---------------------------------------------------------------------- *)
NULL == 0

LOCAL_HOST == "localhost"

NoHost == [name |-> "", gen |-> 0, max |-> 0]

NoMeta == [name |-> "", gen |-> 0, special |-> {}]

EmptyTree == [n \in {} |-> NULL]

SpecialFlags == {"EXCLUSIVE", "NOEMAIL", "NOKILL", "LOCAL"}

(* A failed fetch (curl_easy_perform != CURLE_OK) delivers no nodes.       *)
FetchFailed == <<>>

(* Agent configuration snapshots: the "nodes" array of /agents, one entry  *)
(* per agent, in the order the key-value source returns them.  An entry    *)
(* has the keys it carries; "special" is the list of special/* values.     *)
AgentsA ==
  << [name |-> "copyright", command |-> "copyright", max |-> 2, special |-> {}],
     [name |-> "delagent",  command |-> "delagent",  max |-> 1, special |-> {"EXCLUSIVE"}],
     [name |-> "ununpack",  command |-> "ununpack",  max |-> 1, special |-> {"LOCAL"}] >>

AgentsB ==
  << [name |-> "copyright", command |-> "copyright", max |-> 1, special |-> {}],
     [name |-> "ununpack",  command |-> "ununpack",  special |-> {"LOCAL", "NOKILL"}],
     [name |-> "delagent",  command |-> "delagent",  max |-> 256, special |-> {"EXCLUSIVE"}] >>

(* Host configuration snapshots: the entries under hosts/, each            *)
(* "<address> <dir> <max> <type>" already split by sscanf.                 *)
HostsA == << [key |-> "localhost", max |-> 1], [key |-> "worker", max |-> 2] >>

HostsB == << [key |-> "localhost", max |-> 1] >>

(* What the two fetches of one configuration load can deliver.             *)
ConfigSnapshots ==
  { [hosts |-> HostsA,      agents |-> AgentsA],
    [hosts |-> HostsB,      agents |-> AgentsB],
    [hosts |-> HostsA,      agents |-> FetchFailed],
    [hosts |-> FetchFailed, agents |-> AgentsA] }

(* Exit statuses a reaped agent can carry.                                 *)
ExitStatuses == {0}

(* Rows the database poll can return: agent type, pinned host, priority.   *)
JobRows ==
  { [agent_type |-> "copyright", required_host |-> "",       priority |-> 5],
    [agent_type |-> "copyright", required_host |-> "",       priority |-> 9],
    [agent_type |-> "copyright", required_host |-> "worker", priority |-> 5],
    [agent_type |-> "delagent",  required_host |-> "",       priority |-> 5],
    [agent_type |-> "ununpack",  required_host |-> "worker", priority |-> 5] }

(* ---------------------------------------------------------------------- *)
(* State                                                                   *)
(* ---------------------------------------------------------------------- *)
VARIABLES
  pc,           \* position of the event loop: "idle", "update", "terminated", "crashed"
  sysconfig,    \* scheduler->sysconfig != NULL
  gen,          \* generation of the registries (number of configuration loads)
  meta_agents,  \* scheduler->meta_agents: name -> meta agent
  host_list,    \* scheduler->host_list: name -> host
  host_queue,   \* scheduler->host_queue: round-robin order of host names
  job_list,     \* scheduler->job_list: id -> job
  job_queue,    \* scheduler->job_queue: ids, priority descending then id ascending
  agents,       \* scheduler->agents: pid -> agent
  job,          \* static job_t*  job  of scheduler_update (NULL or a job id)
  host,         \* static host_t* host of scheduler_update (a host reference)
  lockout,      \* static int lockout of scheduler_update
  closing,      \* global closing flag
  s_startup,    \* scheduler->s_startup
  s_pause,      \* scheduler->s_pause
  db_polls,     \* database_update_event signalled by the tick and not yet handled
  dispatched,   \* history: the calls agent_init(host, job), in order
  observed,     \* history: n_agents, n_jobs read by the last tick and what it did
  test_events,  \* scheduler_test_agents events signalled and not yet handled
  last_close,   \* history: what scheduler_close_event did, when it was the last handler
  gnuc,         \* the build: TRUE when compiled with __GNUC__ (atomic builtins)
  sigmask,      \* the global sigmask, as the set of MASK_ bits that are set
  mask,         \* scheduler_signal's local copy of the mask
  sig_pc,       \* position of scheduler_signal: "idle" or "read" (mask copied, not yet cleared)
  children,     \* child pid -> "running", "dead" (not yet waited for) or "reaped",
                \* its wait status, and the lines in its stdout pipe not yet read
  owed,         \* history: signal kinds delivered since the last read of sigmask
  lost,         \* history: signal kinds a read of sigmask should have seen and did not
  last_drain,   \* history: what the call of scheduler_signal that just ended saw and did
  now,          \* the clock: what time(NULL) returns, in seconds
  last_update,  \* static time_t last_update of scheduler_signal (0: not yet set)
  fileContent,  \* OjoAgent: the content of the file to scan, as a sequence of characters
  scan_reg,     \* OjoAgent::scanString: the regex argument of the call
  scan_dual,    \* OjoAgent::scanString: the isDualTest argument of the call
  scan_offset,  \* OjoAgent::scanString: the offset argument of the call
  scan_result,  \* OjoAgent::scanString: the result list after the call
  licenseNames, \* OjoAgent::processFile: the list returned
  ojo_pc,       \* OjoAgent: "idle", "ready" (input chosen), "scanned" or "processed"
  cs_s,         \* hCopyrightScanner::ScanString: the string s
  cs_pos,       \* hCopyrightScanner::ScanString: pos - begin
  cs_results,   \* hCopyrightScanner::ScanString: the list results
  cs_pc         \* hCopyrightScanner::ScanString: "idle", "loop", "done" or "fault"

sched_vars == << pc, sysconfig, gen, meta_agents, host_list, host_queue, job_list,
                 job_queue, agents, job, host, lockout, closing, s_startup, s_pause,
                 db_polls, dispatched, observed, last_close, test_events >>

sig_vars == << gnuc, sigmask, mask, sig_pc, children, owed, lost, last_drain,
               now, last_update >>

scan_vars == << fileContent, scan_reg, scan_dual, scan_offset, scan_result, licenseNames, ojo_pc,
                cs_s, cs_pos, cs_results, cs_pc >>

vars == << sched_vars, sig_vars, scan_vars >>

(* ---------------------------------------------------------------------- *)
(* Registries                                                              *)
(* ---------------------------------------------------------------------- *)
NullMetaAgent ==
  [name |-> "", command |-> "", max_run |-> 0, run_count |-> 0, special |-> {}, gen |-> 0]

NullHostEntry == [name |-> "", max |-> 0, running |-> 0, gen |-> 0]

(* g_tree_lookup: the value stored under key, or the NULL value.           *)
g_tree_lookup(tree, key, null) == IF key \in DOMAIN tree THEN tree[key] ELSE null

g_tree_insert(tree, key, value) ==
  [k \in DOMAIN tree \cup {key} |-> IF k = key THEN value ELSE tree[k]]

(* is_meta_special(ma, flag): NULL has no flag.                            *)
is_meta_special(ma, flag) == ma # NullMetaAgent /\ flag \in ma.special

(* add_meta_agent: registers a new meta agent under its name; a name       *)
(* already registered is kept.                                             *)
add_meta_agent(tree, name, cmd, max, special, g) ==
  IF name \in DOMAIN tree THEN tree
  ELSE g_tree_insert(tree, name,
         [name |-> name, command |-> cmd, max_run |-> max, run_count |-> 0,
          special |-> special, gen |-> g])

(* The loop of scheduler_agent_config over the agent nodes.  name, cmd,    *)
(* max (uint8_t) and special are declared before the loop and are only     *)
(* assigned by the keys an entry carries; special is only ever or-ed into. *)
RECURSIVE AgentConfigLoop(_, _, _, _, _, _, _, _)
AgentConfigLoop(nodes, i, name, cmd, max, special, tree, g) ==
  IF i > Len(nodes) THEN tree
  ELSE LET e        == nodes[i]
           name2    == IF "name" \in DOMAIN e THEN e.name ELSE name
           cmd2     == IF "command" \in DOMAIN e THEN e.command ELSE cmd
           max2     == IF "max" \in DOMAIN e THEN e.max % 256 ELSE max
           special2 == IF "special" \in DOMAIN e
                         THEN special \cup (e.special \cap SpecialFlags)
                         ELSE special
       IN AgentConfigLoop(nodes, i + 1, name2, cmd2, max2, special2,
                          add_meta_agent(tree, name2, cmd2, max2, special2, g), g)

(* scheduler_agent_config: uint8_t max = -1, special = 0, then the loop.   *)
(* Every agent snapshot names its first entry, so the uninitialised name   *)
(* and cmd buffers are never read.                                         *)
scheduler_agent_config(tree, nodes, g) ==
  AgentConfigLoop(nodes, 1, "", "", 255, {}, tree, g)

(* host_init + host_insert for every entry under hosts/: the host is       *)
(* stored under its key and appended to the round-robin queue.             *)
RECURSIVE HostConfigLoop(_, _, _, _)
HostConfigLoop(nodes, i, tree, g) ==
  IF i > Len(nodes) THEN tree
  ELSE HostConfigLoop(nodes, i + 1,
         g_tree_insert(tree, nodes[i].key,
           [name |-> nodes[i].key, max |-> nodes[i].max, running |-> 0, gen |-> g]), g)

scheduler_foss_config(tree, nodes, g) == HostConfigLoop(nodes, 1, tree, g)

(* host_insert appends every new host to scheduler->host_queue.           *)
HostQueueOf(nodes) == [i \in 1..Len(nodes) |-> nodes[i].key]

(* scheduler_clear_config: both trees and the host queue are emptied.      *)
scheduler_clear_config(tree) == EmptyTree

(* Variant of the clearing of the host queue that keeps its entries.       *)
HostQueueKept(q) == q

(* g_list_free(scheduler->host_queue); scheduler->host_queue = NULL;       *)
host_queue_cleared(q) == <<>>

(* The registries and the host queue after scheduler_config_event: clear   *)
(* (when a configuration is loaded), then scheduler_foss_config and        *)
(* scheduler_agent_config on the nodes the two fetches deliver.            *)
LoadedConfig(sc, hl0, ml0, hq0, hnodes, anodes, g) ==
  LET hl == IF sc THEN scheduler_clear_config(hl0) ELSE hl0
      ml == IF sc THEN scheduler_clear_config(ml0) ELSE ml0
      hq == IF sc THEN host_queue_cleared(hq0) ELSE hq0
  IN [host_list   |-> scheduler_foss_config(hl, hnodes, g),
      host_queue  |-> hq \o HostQueueOf(hnodes),
      meta_agents |-> scheduler_agent_config(ml, anodes, g)]

HostRef(h) == [name |-> h.name, gen |-> h.gen, max |-> h.max]

MetaRef(ma) ==
  IF ma = NullMetaAgent THEN NoMeta
  ELSE [name |-> ma.name, gen |-> ma.gen, special |-> ma.special]

(* ---------------------------------------------------------------------- *)
(* Job queue and hosts                                                     *)
(* ---------------------------------------------------------------------- *)
(* Order of the job queue: priority descending, then id ascending.         *)
JobBefore(jl, a, b) ==
  \/ jl[a].priority > jl[b].priority
  \/ (jl[a].priority = jl[b].priority /\ a < b)

RECURSIVE job_queue_insert(_, _, _)
job_queue_insert(q, jl, j) ==
  IF q = <<>> THEN <<j>>
  ELSE IF JobBefore(jl, j, Head(q)) THEN <<j>> \o q
  ELSE <<Head(q)>> \o job_queue_insert(Tail(q), jl, j)

peek_job(q) == IF q = <<>> THEN NULL ELSE Head(q)

next_job(q) == Tail(q)

(* get_host(&host_queue, 1): walks the round-robin queue and returns the   *)
(* position of the first host with running < max, or 0 when there is none. *)
get_host(hq, hl) ==
  LET free == {k \in 1..Len(hq) : hq[k] \in DOMAIN hl /\ hl[hq[k]].running < hl[hq[k]].max}
  IN IF free = {} THEN 0 ELSE CHOOSE k \in free : \A m \in free : k <= m

(* The cursor moves behind the host that was handed out.                   *)
host_queue_after(hq, k) ==
  IF k = 0 THEN hq ELSE SubSeq(hq, k + 1, Len(hq)) \o SubSeq(hq, 1, k)

(* active_jobs: the number of jobs that have at least one live agent.      *)
active_jobs(ag) == Cardinality({ag[p].owner : p \in DOMAIN ag})

(* host->running of the object a reference points at: the registry entry   *)
(* while it is the registered object, else the agents still holding it.    *)
RunningOf(hl, ag, h) ==
  IF h.name \in DOMAIN hl /\ hl[h.name].gen = h.gen THEN hl[h.name].running
  ELSE Cardinality({p \in DOMAIN ag : ag[p].host = h})

(* ---------------------------------------------------------------------- *)
(* agent_init                                                              *)
(* ---------------------------------------------------------------------- *)
(* The state a tick works on, as a record st: job_queue, job_list,         *)
(* meta_agents, host_list, host_queue, agents, dispatched, job, host,      *)
(* crashed, starts, popped.                                                *)
StartRecord(st, h, j, ma, deferred) ==
  [job |-> j, host |-> h.name, registered |-> (h.name \in DOMAIN st.host_list
                                               /\ st.host_list[h.name].gen = h.gen),
   running |-> RunningOf(st.host_list, st.agents, h), max |-> h.max,
   meta |-> ma.name, run_count |-> ma.run_count, max_run |-> ma.max_run,
   special |-> ma.special, live |-> Cardinality(DOMAIN st.agents),
   deferred |-> deferred]

(* agent_init(scheduler, host, job): creates the agent of the job on the   *)
(* host, registers it under a new pid, increases host->running and the     *)
(* run_count of the job's meta agent, and the job becomes STARTED.         *)
agent_init(st, h, j, deferred) ==
  LET ma  == g_tree_lookup(st.meta_agents, st.job_list[j].agent_type, NullMetaAgent)
      pid == Len(st.dispatched) + 1
  IN [st EXCEPT
        !.agents      = g_tree_insert(@, pid, [owner |-> j, host |-> h, type |-> MetaRef(ma)]),
        !.host_list   = IF h.name \in DOMAIN st.host_list /\ st.host_list[h.name].gen = h.gen
                          THEN [st.host_list EXCEPT ![h.name].running = @ + 1]
                          ELSE st.host_list,
        !.meta_agents = IF ma # NullMetaAgent
                          THEN [st.meta_agents EXCEPT ![ma.name].run_count = @ + 1]
                          ELSE st.meta_agents,
        !.job_list    = [st.job_list EXCEPT ![j].status = "STARTED"],
        !.dispatched  = Append(@, j),
        !.starts      = Append(@, StartRecord(st, h, j, ma, deferred))]

(* job_fail_event: the job becomes FAILED.                                 *)
job_fail_event(jl, j, message) ==
  [jl EXCEPT ![j].status = "FAILED", ![j].message = message]

(* ---------------------------------------------------------------------- *)
(* scheduler_update                                                        *)
(* ---------------------------------------------------------------------- *)
(* Variant of the cap test that lets a type run one agent over its cap.    *)
isMaxLimitExceeded(agent) ==
  IF agent # NullMetaAgent /\ agent.max_run < agent.run_count THEN TRUE ELSE FALSE

(* Variant of the cap test that treats an unregistered agent type as      *)
(* capped.                                                                 *)
isMaxLimitReachedOrNull(agent) ==
  IF agent = NullMetaAgent \/ agent.max_run <= agent.run_count THEN TRUE ELSE FALSE

(* if (agent != NULL && agent->max_run <= agent->run_count) return TRUE;   *)
isMaxLimitReached(agent) ==
  IF agent # NullMetaAgent /\ agent.max_run <= agent.run_count THEN TRUE ELSE FALSE

(* Variant of the host test that lets a host take one agent over its max. *)
HostFullOffByOne(h) == ~(h.running <= h.max)

(* if(!(host->running < host->max)): the chosen host has no free slot.     *)
HostFull(h) == ~(h.running < h.max)

(* if(lockout && n_agents == 0 && n_jobs == 0) lockout = 0;                *)
LockoutReleased(l, n_agents, n_jobs) == l /\ n_agents = 0 /\ n_jobs = 0

(* if(job == NULL && !lockout): the placement loop is entered.             *)
MayPlace(j, l) == j = NULL /\ ~l

(* Variant of the held-job test that does not wait for the system to      *)
(* drain.                                                                  *)
StartHeldAtOnce(j, n_agents, n_jobs) == j # NULL

(* if(job != NULL && n_agents == 0 && n_jobs == 0): the held job starts.   *)
MayStartHeld(j, n_agents, n_jobs) == j # NULL /\ n_agents = 0 /\ n_jobs = 0

(* Variant of the startup test that does not wait for the agents.         *)
StartupDrainedAtOnce(s, n_agents) == s

(* if(scheduler->s_startup && n_agents == 0)                               *)
StartupDrained(s, n_agents) == s /\ n_agents = 0

(* Variant of the termination test that does not wait for the agents.     *)
TerminateWhenClosing(c, n_agents, n_jobs) == c

(* if(closing && n_agents == 0 && n_jobs == 0): the loop is terminated.    *)
MayTerminate(c, n_agents, n_jobs) == c /\ n_agents = 0 /\ n_jobs = 0

RECURSIVE PlacementLoop(_)

(* Variant of the break that drops the head of the queue and goes on with *)
(* the job behind it.                                                      *)
LoopSkip(st) ==
  IF st.job_queue = <<>> THEN [st EXCEPT !.job = NULL]
  ELSE PlacementLoop([st EXCEPT !.job_queue = Tail(@)])

(* Where the body of the while loop leaves the loop with job = NULL.       *)
LoopBreak(st) == [st EXCEPT !.job = NULL]

MissingHostMessage == "ERROR: jq_host not in the agent list!"

(* Variant of the statements after the host has been chosen that leaves   *)
(* the job at the head of the queue.                                       *)
AfterHostChosenNoPop(st, j, h, ma) ==
  LET kept == [st EXCEPT !.popped = Append(@, j), !.job = j, !.host = h]
  IN IF is_meta_special(ma, "EXCLUSIVE") THEN kept
     ELSE PlacementLoop([agent_init(kept, h, j, FALSE) EXCEPT !.job = NULL])

(* The statements after the host has been chosen: next_job, then either    *)
(* the break of an EXCLUSIVE job (job and host stay set) or agent_init.    *)
AfterHostChosen(st, j, h, ma) ==
  LET popped == [st EXCEPT !.job_queue = next_job(st.job_queue),
                           !.popped = Append(@, j), !.job = j, !.host = h]
  IN IF is_meta_special(ma, "EXCLUSIVE") THEN popped
     ELSE PlacementLoop([agent_init(popped, h, j, FALSE) EXCEPT !.job = NULL])

(* while((job = peek_job(job_queue)) != NULL) { ... }                      *)
PlacementLoop(st) ==
  LET j == peek_job(st.job_queue)
  IN IF j = NULL THEN LoopBreak(st)
     ELSE
       LET jb == st.job_list[j]
           ma == g_tree_lookup(st.meta_agents, jb.agent_type, NullMetaAgent)
       IN IF isMaxLimitReached(ma) THEN LoopBreak(st)
          ELSE IF is_meta_special(ma, "LOCAL") THEN
            (* host = g_tree_lookup(host_list, LOCAL_HOST); host->running is *)
            (* read without a NULL test: a missing localhost ends the        *)
            (* process with a segmentation fault.                            *)
            IF LOCAL_HOST \notin DOMAIN st.host_list
              THEN [st EXCEPT !.job = j, !.host = NoHost, !.crashed = TRUE]
            ELSE LET h == st.host_list[LOCAL_HOST]
                 IN IF HostFull(h)
                      THEN LoopBreak([st EXCEPT !.host = HostRef(h)])
                      ELSE AfterHostChosen(st, j, HostRef(h), ma)
          ELSE IF jb.required_host # "" THEN
            IF jb.required_host \in DOMAIN st.host_list
              THEN LET h == st.host_list[jb.required_host]
                   IN IF HostFull(h)
                        THEN LoopBreak([st EXCEPT !.host = HostRef(h)])
                        ELSE AfterHostChosen(st, j, HostRef(h), ma)
              ELSE LoopBreak([st EXCEPT
                     !.host = NoHost,
                     !.job_list = job_fail_event(st.job_list, j, MissingHostMessage),
                     !.failed = Append(@, j)])
          ELSE
            LET k == get_host(st.host_queue, st.host_list)
            IN IF k = 0 THEN LoopBreak([st EXCEPT !.host = NoHost])
               ELSE AfterHostChosen(
                      [st EXCEPT !.host_queue = host_queue_after(st.host_queue, k)],
                      j, HostRef(st.host_list[st.host_queue[k]]), ma)

(* The tick from "if(lockout && ...)" to "if(job != NULL && ...)",         *)
(* with the n_agents and n_jobs read when the tick was entered.            *)
TickBody(st, n_agents, n_jobs) ==
  LET st1 == IF LockoutReleased(st.lockout, n_agents, n_jobs)
               THEN [st EXCEPT !.lockout = FALSE] ELSE st
      st2 == IF MayPlace(st1.job, st1.lockout) THEN PlacementLoop(st1) ELSE st1
  IN IF ~st2.crashed /\ MayStartHeld(st2.job, n_agents, n_jobs)
       THEN [agent_init(st2, st2.host, st2.job, TRUE) EXCEPT
               !.lockout = TRUE, !.job = NULL, !.host = NoHost]
       ELSE st2

TickState ==
  [job_queue |-> job_queue, job_list |-> job_list, meta_agents |-> meta_agents,
   host_list |-> host_list, host_queue |-> host_queue, agents |-> agents,
   dispatched |-> dispatched, job |-> job, host |-> host, lockout |-> lockout,
   crashed |-> FALSE, starts |-> <<>>, popped |-> <<>>, failed |-> <<>>]

Observation(n_agents, n_jobs, st, terminated) ==
  [n_agents |-> n_agents, n_jobs |-> n_jobs, job |-> job, host |-> host,
   lockout |-> lockout, queue |-> job_queue,
   starts |-> st.starts, popped |-> st.popped, failed |-> st.failed,
   terminated |-> terminated]

scheduler_update ==
  /\ pc = "update"
  /\ LET n_agents == Cardinality(DOMAIN agents)
         n_jobs   == active_jobs(agents)
         startup  == StartupDrained(s_startup, n_agents)
     IN IF MayTerminate(closing, n_agents, n_jobs)
          THEN /\ pc' = "terminated"
               /\ s_startup' = IF startup THEN FALSE ELSE s_startup
               /\ db_polls' = IF startup THEN db_polls + 1 ELSE db_polls
               /\ observed' = Observation(n_agents, n_jobs, TickState, TRUE)
               /\ UNCHANGED << sysconfig, gen, meta_agents, host_list, host_queue,
                               job_list, job_queue, agents, job, host, lockout,
                               closing, s_pause, dispatched >>
          ELSE LET st == TickBody(TickState, n_agents, n_jobs)
               IN /\ pc' = IF st.crashed THEN "crashed" ELSE "idle"
                  /\ job_queue' = st.job_queue
                  /\ job_list' = st.job_list
                  /\ meta_agents' = st.meta_agents
                  /\ host_list' = st.host_list
                  /\ host_queue' = st.host_queue
                  /\ agents' = st.agents
                  /\ dispatched' = st.dispatched
                  /\ job' = st.job
                  /\ host' = st.host
                  /\ lockout' = st.lockout
                  /\ s_startup' = IF st.crashed THEN (s_startup /\ ~startup)
                                  ELSE IF s_pause THEN TRUE ELSE (s_startup /\ ~startup)
                  /\ s_pause' = IF st.crashed THEN s_pause ELSE FALSE
                  /\ db_polls' = IF startup THEN db_polls + 1 ELSE db_polls
                  /\ observed' = Observation(n_agents, n_jobs, st, FALSE)
                  /\ UNCHANGED << sysconfig, gen, closing >>
  /\ UNCHANGED << last_close, test_events >>
  /\ UNCHANGED << sig_vars, scan_vars >>

NoClose == [handled |-> FALSE, killed |-> FALSE, signalled |-> {}]

NoObservation ==
  [n_agents |-> 0, n_jobs |-> 0, job |-> NULL, host |-> NoHost, lockout |-> FALSE,
   queue |-> <<>>, starts |-> <<>>, popped |-> <<>>,
   failed |-> <<>>, terminated |-> FALSE]

(* ---------------------------------------------------------------------- *)
(* Event handlers                                                          *)
(* ---------------------------------------------------------------------- *)
(* scheduler_config_event: clear (when a configuration is loaded), then    *)
(* scheduler_foss_config and scheduler_agent_config on what the fetches    *)
(* deliver (hnodes, anodes; no nodes when a fetch failed).                 *)
scheduler_config_event(hnodes, anodes) ==
  /\ pc = "idle"
  /\ gen < MaxReloads
  /\ LET r == LoadedConfig(sysconfig, host_list, meta_agents, host_queue,
                            hnodes, anodes, gen + 1)
     IN /\ host_list' = r.host_list
        /\ host_queue' = r.host_queue
        /\ meta_agents' = r.meta_agents
  /\ sysconfig' = TRUE
  /\ gen' = gen + 1
  /\ test_events' = test_events + 1
  /\ pc' = "update"
  /\ observed' = NoObservation
  /\ last_close' = NoClose
  /\ UNCHANGED << job_list, job_queue, agents, job, host, lockout, closing,
                  s_startup, s_pause, db_polls, dispatched >>
  /\ UNCHANGED << sig_vars, scan_vars >>

(* database_update_event: every new row of the job table becomes a QUEUED  *)
(* job with the next id and is inserted into the job queue.                *)
RECURSIVE InsertRows(_, _, _)
InsertRows(jq, jl, rows) ==
  IF rows = <<>> THEN [job_queue |-> jq, job_list |-> jl]
  ELSE LET id  == Len(jl) + 1
           jl2 == Append(jl, [agent_type |-> Head(rows).agent_type,
                              required_host |-> Head(rows).required_host,
                              priority |-> Head(rows).priority,
                              status |-> "QUEUED", message |-> ""])
       IN InsertRows(job_queue_insert(jq, jl2, id), jl2, Tail(rows))

database_update_event(rows) ==
  /\ pc = "idle"
  /\ sysconfig
  /\ Len(job_list) + Len(rows) <= MaxJobs
  /\ LET r == InsertRows(job_queue, job_list, rows)
     IN /\ job_queue' = r.job_queue
        /\ job_list' = r.job_list
  /\ db_polls' = IF db_polls > 0 THEN db_polls - 1 ELSE 0
  /\ pc' = "update"
  /\ observed' = NoObservation
  /\ last_close' = NoClose
  /\ UNCHANGED test_events
  /\ UNCHANGED << sysconfig, gen, meta_agents, host_list, host_queue, agents, job,
                  host, lockout, closing, s_startup, s_pause, dispatched >>
  /\ UNCHANGED << sig_vars, scan_vars >>

(* agent_death_event{pid, status}: the agent leaves the pid map, the       *)
(* running count of its host and the run_count of its meta agent go down   *)
(* (on the objects the agent captured), and its job completes or fails; a  *)
(* test agent has no job in the job list.  The lookup of a pid that is not *)
(* in the pid map finds no agent and nothing changes.                      *)
agent_death(hl, ml, ag, jl, pid, status) ==
  LET a == ag[pid]
  IN [host_list   |-> IF a.host.name \in DOMAIN hl /\ hl[a.host.name].gen = a.host.gen
                        THEN [hl EXCEPT ![a.host.name].running = @ - 1] ELSE hl,
      meta_agents |-> IF a.type.name \in DOMAIN ml /\ ml[a.type.name].gen = a.type.gen
                        THEN [ml EXCEPT ![a.type.name].run_count = @ - 1] ELSE ml,
      agents      |-> [q \in DOMAIN ag \ {pid} |-> ag[q]],
      job_list    |-> IF a.owner = NULL THEN jl
                      ELSE [jl EXCEPT ![a.owner].status =
                                         IF status = 0 THEN "COMPLETE" ELSE "FAILED"]]

agent_death_event(pid, status) ==
  /\ pc = "idle"
  /\ IF pid \in DOMAIN agents
       THEN LET r == agent_death(host_list, meta_agents, agents, job_list, pid, status)
            IN /\ host_list' = r.host_list
               /\ meta_agents' = r.meta_agents
               /\ agents' = r.agents
               /\ job_list' = r.job_list
       ELSE UNCHANGED << host_list, meta_agents, agents, job_list >>
  /\ pc' = "update"
  /\ observed' = NoObservation
  /\ last_close' = NoClose
  /\ UNCHANGED test_events
  /\ UNCHANGED << sysconfig, gen, host_queue, job_queue, job, host, lockout, closing,
                  s_startup, s_pause, db_polls, dispatched >>
  /\ UNCHANGED << sig_vars, scan_vars >>

(* Variant of the test of the close handler that kills on every close.     *)
KillAlways(killed) == TRUE

(* if(killed)                                                              *)
MayKill(killed) == killed

(* kill_agents: the termination signal goes to every agent whose meta      *)
(* agent has no NOKILL flag; the result is the set of pids signalled.      *)
kill_agents(ag) == {p \in DOMAIN ag : "NOKILL" \notin ag[p].type.special}

(* scheduler_close_event(killed): closing = 1; kill_agents when killed.    *)
scheduler_close_event(killed) ==
  /\ pc = "idle"
  /\ sysconfig
  /\ closing' = TRUE
  /\ last_close' = [handled |-> TRUE, killed |-> killed,
                    signalled |-> IF MayKill(killed) THEN kill_agents(agents) ELSE {}]
  /\ UNCHANGED test_events
  /\ pc' = "update"
  /\ observed' = NoObservation
  /\ UNCHANGED << sysconfig, gen, meta_agents, host_list, host_queue, job_list,
                  job_queue, agents, job, host, lockout, s_startup, s_pause,
                  db_polls, dispatched >>
  /\ UNCHANGED << sig_vars, scan_vars >>

(* ---------------------------------------------------------------------- *)
(* The event loop: handlers followed by the tick                           *)
(* ---------------------------------------------------------------------- *)
(* scheduler_init, and the signal bridge at rest.                          *)
SchedInit ==
  /\ pc = "idle"
  /\ sysconfig = FALSE
  /\ gen = 0
  /\ meta_agents = EmptyTree
  /\ host_list = EmptyTree
  /\ host_queue = <<>>
  /\ job_list = <<>>
  /\ job_queue = <<>>
  /\ agents = EmptyTree
  /\ job = NULL
  /\ host = NoHost
  /\ lockout = FALSE
  /\ closing = FALSE
  /\ s_startup = FALSE
  /\ s_pause = TRUE
  /\ db_polls = 0
  /\ dispatched = <<>>
  /\ observed = NoObservation
  /\ last_close = NoClose
  /\ test_events = 0

NoDrain == [ended |-> FALSE, mask |-> {}, dead |-> {}, emitted |-> <<>>,
            config_ran |-> FALSE]

SigRest ==
  /\ sigmask = {}
  /\ mask = {}
  /\ sig_pc = "idle"
  /\ children = <<>>
  /\ owed = {}
  /\ lost = {}
  /\ last_drain = NoDrain
  /\ now = 1
  /\ last_update = 0

(* No scan of the license or copyright agents is under way.                *)
ScanRest ==
  /\ fileContent = <<>>
  /\ scan_reg = ""
  /\ scan_dual = FALSE
  /\ scan_offset = 0
  /\ scan_result = <<>>
  /\ licenseNames = <<>>
  /\ ojo_pc = "idle"
  /\ cs_s = <<>>
  /\ cs_pos = 0
  /\ cs_results = <<>>
  /\ cs_pc = "idle"

Init == SchedInit /\ SigRest /\ ScanRest /\ gnuc = TRUE

RowBatches == UNION {[1..k -> JobRows] : k \in 0..MaxJobs}

ConfigEvent ==
  \E c \in ConfigSnapshots : scheduler_config_event(c.hosts, c.agents)

DatabaseUpdate == \E rows \in RowBatches : database_update_event(rows)

AgentDeath == \E pid \in DOMAIN agents, status \in ExitStatuses : agent_death_event(pid, status)

Close == \E killed \in BOOLEAN : scheduler_close_event(killed)

Next ==
  \/ ConfigEvent
  \/ DatabaseUpdate
  \/ AgentDeath
  \/ Close
  \/ scheduler_update

Spec == Init /\ [][Next]_vars

(* A step of the tick: scheduler_update is the only action that leaves     *)
(* pc = "update", and it can always run there.                             *)
TickRuns == pc = "update" /\ pc' \in {"idle", "terminated", "crashed"}

(* The loop calls scheduler_update after every event it handled.           *)
FairSpec == Spec /\ WF_pc(TickRuns)

(* ---------------------------------------------------------------------- *)
(* Shutdown with a job table that keeps receiving rows                     *)
(* ---------------------------------------------------------------------- *)
(* The live pids in increasing order.                                      *)
RECURSIVE PidsInOrder(_)
PidsInOrder(pids) ==
  IF pids = {} THEN <<>>
  ELSE LET p == CHOOSE x \in pids : \A y \in pids : x <= y
       IN << p >> \o PidsInOrder(pids \ {p})

(* database_update_event while closing, for a poll that returns one row    *)
(* equal to the row of a job that has completed: the completed job is      *)
(* forgotten and the new job takes its place in the job list.  The pids of *)
(* the live agents are renamed to 1..n, so that the job list and the pids  *)
(* stay within the bounds however many rows arrive.                        *)
database_update_reinsert(j) ==
  /\ pc = "idle"
  /\ closing
  /\ j \in 1..Len(job_list)
  /\ job_list[j].status = "COMPLETE"
  /\ LET jl   == [job_list EXCEPT ![j].status = "QUEUED", ![j].message = ""]
         pids == PidsInOrder(DOMAIN agents)
     IN /\ job_list' = jl
        /\ job_queue' = job_queue_insert(job_queue, jl, j)
        /\ agents' = [i \in 1..Len(pids) |-> agents[pids[i]]]
        /\ dispatched' = [i \in 1..Len(pids) |-> agents[pids[i]].owner]
  /\ db_polls' = IF db_polls > 0 THEN db_polls - 1 ELSE 0
  /\ pc' = "update"
  /\ observed' = NoObservation
  /\ last_close' = NoClose
  /\ UNCHANGED test_events
  /\ UNCHANGED << sysconfig, gen, meta_agents, host_list, host_queue, job, host,
                  lockout, closing, s_startup, s_pause >>
  /\ UNCHANGED << sig_vars, scan_vars >>

FirstLoad == gen = 0 /\ ConfigEvent

Reinsert == \E j \in 1..MaxJobs : database_update_reinsert(j)

CloseNext ==
  \/ FirstLoad
  \/ DatabaseUpdate
  \/ Reinsert
  \/ AgentDeath
  \/ Close
  \/ scheduler_update

(* The scheduler that loads its configuration once; the loop calls         *)
(* scheduler_update after every event it handled.                          *)
CloseSpec == Init /\ [][CloseNext]_vars /\ WF_pc(TickRuns)

(* ---------------------------------------------------------------------- *)
(* Death events for pids whose death has been handled                      *)
(* ---------------------------------------------------------------------- *)
RepeatedDeath ==
  \E pid \in 1..Len(dispatched), status \in ExitStatuses :
    pid \notin DOMAIN agents /\ agent_death_event(pid, status)

DeathNext ==
  \/ ConfigEvent
  \/ DatabaseUpdate
  \/ AgentDeath
  \/ RepeatedDeath
  \/ Close
  \/ scheduler_update

DeathSpec == Init /\ [][DeathNext]_vars

(* ---------------------------------------------------------------------- *)
(* Startup: the agent tests of a configuration load                        *)
(* ---------------------------------------------------------------------- *)
(* test_agents: one test agent is spawned for every registered meta agent; *)
(* it belongs to no job of the job list and to no registered host.         *)
RECURSIVE TestSpawn(_, _, _, _)
TestSpawn(ag, ml, disp, names) ==
  IF names = {} THEN [agents |-> ag, meta_agents |-> ml, dispatched |-> disp]
  ELSE LET n   == CHOOSE x \in names : TRUE
           pid == Len(disp) + 1
       IN TestSpawn(g_tree_insert(ag, pid, [owner |-> NULL, host |-> NoHost,
                                            type |-> MetaRef(ml[n])]),
                    [ml EXCEPT ![n].run_count = @ + 1],
                    Append(disp, NULL), names \ {n})

test_agents(ag, ml, disp) == TestSpawn(ag, ml, disp, DOMAIN ml)

(* scheduler_test_agents: s_startup = TRUE; test_agents(scheduler).        *)
scheduler_test_agents ==
  /\ pc = "idle"
  /\ test_events > 0
  /\ test_events' = test_events - 1
  /\ s_startup' = TRUE
  /\ LET r == test_agents(agents, meta_agents, dispatched)
     IN /\ agents' = r.agents
        /\ meta_agents' = r.meta_agents
        /\ dispatched' = r.dispatched
  /\ pc' = "update"
  /\ observed' = NoObservation
  /\ last_close' = NoClose
  /\ UNCHANGED << sysconfig, gen, host_list, host_queue, job_list, job_queue, job,
                  host, lockout, closing, s_pause, db_polls >>
  /\ UNCHANGED << sig_vars, scan_vars >>

(* scheduler_signal on SIGHUP: scheduler_config_event is called inside the *)
(* drain, between two events of the loop, and no tick follows the call.    *)
scheduler_signal_config(hnodes, anodes) ==
  /\ pc = "idle"
  /\ gen < MaxReloads
  /\ LET r == LoadedConfig(sysconfig, host_list, meta_agents, host_queue,
                            hnodes, anodes, gen + 1)
     IN /\ host_list' = r.host_list
        /\ host_queue' = r.host_queue
        /\ meta_agents' = r.meta_agents
  /\ sysconfig' = TRUE
  /\ gen' = gen + 1
  /\ test_events' = test_events + 1
  /\ UNCHANGED << pc, job_list, job_queue, agents, job, host, lockout, closing,
                  s_startup, s_pause, db_polls, dispatched, observed, last_close >>
  /\ UNCHANGED << sig_vars, scan_vars >>

SighupLoad ==
  gen = 0 /\ \E c \in ConfigSnapshots : scheduler_signal_config(c.hosts, c.agents)

(* A database_update_event behind the test event in the event queue: the   *)
(* one the startup drain signalled, or the one scheduler_signal signals    *)
(* when the update interval has passed.                                    *)
DatabaseUpdateAfterTest == test_events = 0 /\ DatabaseUpdate

StartupNext ==
  \/ FirstLoad
  \/ SighupLoad
  \/ scheduler_test_agents
  \/ DatabaseUpdateAfterTest
  \/ AgentDeath
  \/ scheduler_update

StartupSpec == Init /\ [][StartupNext]_vars

(* ---------------------------------------------------------------------- *)
(* The signal bridge                                                       *)
(* ---------------------------------------------------------------------- *)
Signals == {"SIGCHLD", "SIGALRM", "SIGTERM", "SIGQUIT", "SIGHUP"}

(* Statuses waitpid can report for a dead child.                           *)
WaitStatuses == {0, 1}

(* scheduler_sig_handle(signo): the bit of the signal is or-ed into        *)
(* sigmask; the __GNUC__ switch has no case for SIGALRM.                   *)
scheduler_sig_handle(m, signo, g) ==
  IF g THEN (IF signo \in {"SIGCHLD", "SIGTERM", "SIGQUIT", "SIGHUP"} THEN m \cup {signo} ELSE m)
  ELSE (IF signo \in Signals THEN m \cup {signo} ELSE m)

(* What the first statement of scheduler_signal leaves in sigmask:         *)
(* __sync_fetch_and_and(&sigmask, 0) clears it with the read, the plain    *)
(* "mask = sigmask;" does not.                                             *)
SigmaskAfterRead(m, g) == IF g THEN {} ELSE m

(* What "sigmask = 0;" of the build without __GNUC__ leaves in sigmask.    *)
SigmaskAfterClear(m, g) == IF g THEN m ELSE {}

Dead(ch) == {p \in 1..Len(ch) : ch[p].state = "dead"}

(* The events of one drain, in the order of the event_signal calls: one    *)
(* agent_death_event per pid waitpid returned (here in pid order), then    *)
(* the close events.                                                       *)
RECURSIVE DeathEvents(_, _)
DeathEvents(ch, p) ==
  IF p > Len(ch) THEN <<>>
  ELSE (IF ch[p].state = "dead"
          THEN << [event |-> "agent_death_event", pid |-> p, status |-> ch[p].status] >>
          ELSE <<>>) \o DeathEvents(ch, p + 1)

(* Variant of the translation that signals the forced close first.         *)
DrainEventsForcedFirst(m, ch) ==
  (IF "SIGCHLD" \in m THEN DeathEvents(ch, 1) ELSE <<>>)
  \o (IF "SIGQUIT" \in m THEN << [event |-> "scheduler_close_event", killed |-> TRUE] >> ELSE <<>>)
  \o (IF "SIGTERM" \in m THEN << [event |-> "scheduler_close_event", killed |-> FALSE] >> ELSE <<>>)

DrainEvents(m, ch) ==
  (IF "SIGCHLD" \in m THEN DeathEvents(ch, 1) ELSE <<>>)
  \o (IF "SIGTERM" \in m THEN << [event |-> "scheduler_close_event", killed |-> FALSE] >> ELSE <<>>)
  \o (IF "SIGQUIT" \in m THEN << [event |-> "scheduler_close_event", killed |-> TRUE] >> ELSE <<>>)

(* while((n = waitpid(-1, &status, WNOHANG)) > 0): every dead child is     *)
(* waited for.                                                             *)
Reap(m, ch) ==
  IF "SIGCHLD" \in m
    THEN [p \in 1..Len(ch) |-> IF ch[p].state = "dead" THEN [ch[p] EXCEPT !.state = "reaped"]
                                                    ELSE ch[p]]
    ELSE ch

(* The scheduler forks a child (an agent).                                 *)
Fork ==
  /\ Len(children) < MaxChildren
  /\ children' = Append(children, [state |-> "running", status |-> 0, unread |-> 0])
  /\ last_drain' = NoDrain
  /\ UNCHANGED << gnuc, sigmask, mask, sig_pc, owed, lost, now, last_update >>
  /\ UNCHANGED << sched_vars, scan_vars >>

(* A child exits and the kernel delivers SIGCHLD to the handler.           *)
ChildExit(p, status) ==
  /\ p \in 1..Len(children)
  /\ children[p].state = "running"
  /\ children' = [children EXCEPT ![p].state = "dead", ![p].status = status]
  /\ sigmask' = scheduler_sig_handle(sigmask, "SIGCHLD", gnuc)
  /\ owed' = owed \cup {"SIGCHLD"}
  /\ last_drain' = NoDrain
  /\ UNCHANGED << gnuc, mask, sig_pc, lost, now, last_update >>
  /\ UNCHANGED << sched_vars, scan_vars >>

(* Another signal is delivered to the handler.                             *)
Deliver(signo) ==
  /\ sigmask' = scheduler_sig_handle(sigmask, signo, gnuc)
  /\ owed' = owed \cup {signo}
  /\ last_drain' = NoDrain
  /\ UNCHANGED << gnuc, mask, sig_pc, children, lost, now, last_update >>
  /\ UNCHANGED << sched_vars, scan_vars >>

(* scheduler_signal, first statement: the mask is copied.  A kind that was *)
(* delivered since the previous copy and is not in this copy is lost.      *)
scheduler_signal_read ==
  /\ sig_pc = "idle"
  /\ mask' = sigmask
  /\ sigmask' = SigmaskAfterRead(sigmask, gnuc)
  /\ lost' = owed \ sigmask
  /\ owed' = {}
  /\ sig_pc' = "read"
  /\ last_drain' = NoDrain
  /\ UNCHANGED << gnuc, children, now, last_update >>
  /\ UNCHANGED << sched_vars, scan_vars >>

(* if(last_update == 0) last_update = time(NULL);                          *)
LastUpdateSet(lu, t) == IF lu = 0 THEN t ELSE lu

(* Variant of the interval test that is also true at the interval itself.  *)
UpdateDueAtInterval(t, lu) == (t - lu) >= CONF_agent_update_interval

(* if((time(NULL) - last_update) > CONF_agent_update_interval)             *)
UpdateDue(t, lu) == (t - lu) > CONF_agent_update_interval

(* event_signal(agent_update_event), event_signal(database_update_event).  *)
UpdateEvents(due) ==
  IF due THEN << [event |-> "agent_update_event"], [event |-> "database_update_event"] >>
  ELSE <<>>

(* scheduler_signal, the rest: the clear of the build without __GNUC__,    *)
(* the translation of the copied mask, then the periodic update.           *)
scheduler_signal_translate ==
  /\ sig_pc = "read"
  /\ sigmask' = SigmaskAfterClear(sigmask, gnuc)
  /\ children' = Reap(mask, children)
  /\ LET lu  == LastUpdateSet(last_update, now)
         due == UpdateDue(now, lu)
     IN /\ last_drain' = [ended |-> TRUE, mask |-> mask,
                          dead |-> {[pid |-> p, status |-> children[p].status] :
                                      p \in Dead(children)},
                          emitted |-> DrainEvents(mask, children) \o UpdateEvents(due),
                          config_ran |-> ("SIGHUP" \in mask)]
        /\ last_update' = IF due THEN now ELSE lu
  /\ mask' = {}
  /\ sig_pc' = "idle"
  /\ UNCHANGED << gnuc, owed, lost, now >>
  /\ UNCHANGED << sched_vars, scan_vars >>

SigInit == SchedInit /\ SigRest /\ ScanRest /\ gnuc \in BOOLEAN

ChildExits == \E p \in 1..Len(children), status \in WaitStatuses : ChildExit(p, status)

Delivery == \E signo \in Signals \ {"SIGCHLD"} : Deliver(signo)

SigNext ==
  \/ Fork
  \/ ChildExits
  \/ Delivery
  \/ scheduler_signal_read
  \/ scheduler_signal_translate

SigSpec == SigInit /\ [][SigNext]_vars

(* The loop calls scheduler_signal at least once a second.                 *)
FairSigSpec ==
  SigSpec /\ WF_vars(scheduler_signal_read) /\ WF_vars(scheduler_signal_translate)

(* ---------------------------------------------------------------------- *)
(* The clock and the periodic update                                       *)
(* ---------------------------------------------------------------------- *)
(* A second passes.                                                        *)
TimePasses ==
  /\ now < MaxTime
  /\ now' = now + 1
  /\ last_drain' = NoDrain
  /\ UNCHANGED << gnuc, sigmask, mask, sig_pc, children, owed, lost, last_update >>
  /\ UNCHANGED << sched_vars, scan_vars >>

Alarm == Deliver("SIGALRM")

TimerNext ==
  \/ TimePasses
  \/ Alarm
  \/ scheduler_signal_read
  \/ scheduler_signal_translate

TimerSpec == SigInit /\ [][TimerNext]_vars

(* ---------------------------------------------------------------------- *)
(* Agent output: the reader thread of a child and the signal bridge        *)
(* ---------------------------------------------------------------------- *)
(* A running child writes a line to its stdout pipe.                       *)
ChildWrites(p) ==
  /\ p \in 1..Len(children)
  /\ children[p].state = "running"
  /\ children[p].unread < MaxLines
  /\ children' = [children EXCEPT ![p].unread = @ + 1]
  /\ last_drain' = NoDrain
  /\ UNCHANGED << gnuc, sigmask, mask, sig_pc, owed, lost, now, last_update >>
  /\ UNCHANGED << sched_vars, scan_vars >>

(* The reader thread of the child reads a line from the pipe, parses it    *)
(* and posts the output event to the event queue.                          *)
ReaderPosts(p) ==
  /\ p \in 1..Len(children)
  /\ children[p].unread > 0
  /\ children' = [children EXCEPT ![p].unread = @ - 1]
  /\ last_drain' = NoDrain
  /\ UNCHANGED << gnuc, sigmask, mask, sig_pc, owed, lost, now, last_update >>
  /\ UNCHANGED << sched_vars, scan_vars >>

Writes == \E p \in 1..MaxChildren : ChildWrites(p)

Reads == \E p \in 1..MaxChildren : ReaderPosts(p)

OutputNext ==
  \/ Fork
  \/ Writes
  \/ Reads
  \/ ChildExits
  \/ scheduler_signal_read
  \/ scheduler_signal_translate

OutputSpec == SigInit /\ [][OutputNext]_vars

(* ---------------------------------------------------------------------- *)
(* Shutdown by signal: the bridge and the close handler together           *)
(* ---------------------------------------------------------------------- *)
(* The database poll returns one row, once.                                *)
OneJob == job_list = <<>> /\ \E row \in JobRows : database_update_event(<< row >>)

ShutdownDelivery == \E signo \in {"SIGTERM", "SIGQUIT"} : Deliver(signo)

(* The loop handles a close event that the drain which just ended put in   *)
(* the event queue.                                                        *)
CloseFromDrain ==
  \E k \in 1..Len(last_drain.emitted) :
    /\ last_drain.emitted[k].event = "scheduler_close_event"
    /\ scheduler_close_event(last_drain.emitted[k].killed)

ShutdownNext ==
  \/ FirstLoad
  \/ OneJob
  \/ AgentDeath
  \/ scheduler_update
  \/ ShutdownDelivery
  \/ scheduler_signal_read
  \/ scheduler_signal_translate
  \/ CloseFromDrain

ShutdownSpec == Init /\ [][ShutdownNext]_vars

(* ---------------------------------------------------------------------- *)
(* OjoAgent: the SPDX license scan                                         *)
(* ---------------------------------------------------------------------- *)
(* Characters of a file: "#" stands for the SPDX-License-Identifier tag,   *)
(* "a" and "b" for the characters of license names, "|" for the operator   *)
(* between two names.  Positions are counted from 0 as in the code.        *)
OjoChars == {"#", "a", "b", "|"}

NameChars == {"a", "b"}

Texts == UNION {[1..n -> OjoChars] : n \in 0..MaxText}

CharAt(text, i) == text[i + 1]

NoMatch == [found |-> FALSE, first |-> 0, second |-> 0, g_first |-> 0, g_len |-> 0]

(* Length of the run of characters of set cs in text from position i.      *)
RECURSIVE RunLength(_, _, _)
RunLength(text, i, cs) ==
  IF i < Len(text) /\ CharAt(text, i) \in cs THEN 1 + RunLength(text, i + 1, cs) ELSE 0

Least(S) == CHOOSE k \in S : \A m \in S : k <= m

(* boost::u32regex_search(pos, end, res, reg): the leftmost match at or     *)
(* after pos.  res[0] is [first, second), res[1] is the group              *)
(* [g_first, g_first + g_len).                                             *)
(*   regLicenseList: the tag, then the list up to the next tag (group).    *)
(*   regLicenseName: an optional operator, then a name (group).            *)
(*   regDualLicense: an operator (group).                                  *)
u32regex_search(text, pos, reg) ==
  LET n == Len(text)
  IN IF reg = "regLicenseList" THEN
       LET c == {i \in pos..(n - 2) :
                   CharAt(text, i) = "#" /\ CharAt(text, i + 1) # "#"}
       IN IF c = {} THEN NoMatch
          ELSE LET i == Least(c)
                   l == RunLength(text, i + 1, OjoChars \ {"#"})
               IN [found |-> TRUE, first |-> i, second |-> i + 1 + l,
                   g_first |-> i + 1, g_len |-> l]
     ELSE IF reg = "regLicenseName" THEN
       LET c == {i \in pos..(n - 1) :
                   \/ CharAt(text, i) \in NameChars
                   \/ (CharAt(text, i) = "|" /\ i + 1 < n
                       /\ CharAt(text, i + 1) \in NameChars)}
       IN IF c = {} THEN NoMatch
          ELSE LET i == Least(c)
                   g == IF CharAt(text, i) = "|" THEN i + 1 ELSE i
                   l == RunLength(text, g, NameChars)
               IN [found |-> TRUE, first |-> i, second |-> g + l,
                   g_first |-> g, g_len |-> l]
     ELSE
       LET c == {i \in pos..(n - 1) : CharAt(text, i) = "|"}
       IN IF c = {} THEN NoMatch
          ELSE LET i == Least(c)
               IN [found |-> TRUE, first |-> i, second |-> i + 1,
                   g_first |-> i, g_len |-> 1]

(* icu::UnicodeString::indexOf(c, start, length): the first position of c  *)
(* in [start, start + length), or -1.                                      *)
(* start and length are pinned to the string first.                        *)
indexOf(text, c, start, length) ==
  LET st == IF start < 0 THEN 0 ELSE IF start > Len(text) THEN Len(text) ELSE start
      ln == IF length < 0 THEN 0
            ELSE IF length > Len(text) - st THEN Len(text) - st ELSE length
      c1 == {i \in st..(st + ln - 1) : CharAt(text, i) = c}
  IN IF c1 = {} THEN -1 ELSE Least(c1)

(* text.countChar32(): every character is one code unit.                   *)
countChar32(text) == Len(text)

DualLicenseContent == << "Dual-license" >>

ojomatch(st, e, l, c) == [start |-> st, end |-> e, len |-> l, content |-> c]

(* offset += res.position() + (foundIndexEnd - foundIndexStart);           *)
OffsetAfterMatch(offset, position, len) == offset + position + len

(* OjoAgent::scanString: the while loop from position pos.                 *)
RECURSIVE scanStringLoop(_, _, _, _, _, _)
scanStringLoop(text, reg, result, offset, isDualTest, pos) ==
  IF pos = Len(text) THEN result
  ELSE LET res == u32regex_search(text, pos, reg)
       IN IF ~res.found THEN result
          ELSE
            LET foundPosStart   == res.g_first
                foundIndexStart == indexOf(text, CharAt(text, foundPosStart),
                                           foundPosStart, Len(text) - foundPosStart)
                foundPosEnd     == foundPosStart + res.g_len
                (* at the end of the text the range of indexOf is empty,    *)
                (* whatever character is read there                        *)
                found2          == IF foundPosEnd = Len(text) THEN -1
                                   ELSE indexOf(text, CharAt(text, foundPosEnd),
                                                foundPosEnd, Len(text) - foundPosEnd)
                foundIndexEnd   == IF found2 = -1 THEN countChar32(text) ELSE found2
                content         == IF isDualTest THEN DualLicenseContent
                                   ELSE SubSeq(text, foundIndexStart + 1, foundIndexEnd)
            IN scanStringLoop(text, reg,
                 Append(result, ojomatch(offset + foundIndexStart, offset + foundIndexEnd,
                                         foundIndexEnd - foundIndexStart, content)),
                 OffsetAfterMatch(offset, res.first - pos, foundIndexEnd - foundIndexStart),
                 isDualTest, res.second)

scanString(text, reg, result, offset, isDualTest) ==
  scanStringLoop(text, reg, result, offset, isDualTest, 0)

(* bool ojomatch::operator==(const ojomatch&): the contents are equal.     *)
ojomatch_eq(m1, m2) == m1.content = m2.content

(* std::unique + resize: of every run of consecutive equal matches the     *)
(* first is kept.                                                          *)
RECURSIVE std_unique(_)
std_unique(l) ==
  IF Len(l) <= 1 THEN l
  ELSE LET r == std_unique(SubSeq(l, 1, Len(l) - 1))
       IN IF ojomatch_eq(r[Len(r)], l[Len(l)]) THEN r ELSE Append(r, l[Len(l)])

(* The for loop of processFile over licenseList.                           *)
RECURSIVE NamesOfLists(_, _, _)
NamesOfLists(licenseList, i, names) ==
  IF i > Len(licenseList) THEN names
  ELSE LET m  == licenseList[i]
           n1 == scanString(m.content, "regLicenseName", names, m.start, FALSE)
           n2 == scanString(m.content, "regDualLicense", n1, m.start, TRUE)
       IN NamesOfLists(licenseList, i + 1, n2)

(* OjoAgent::processFile(filePath), the variant of the command line.       *)
processFile(content) ==
  LET licenseList == scanString(content, "regLicenseList", <<>>, 0, FALSE)
  IN std_unique(NamesOfLists(licenseList, 1, <<>>))

OjoRegexes == {"regLicenseList", "regLicenseName", "regDualLicense"}

(* A file and the arguments of a call are chosen.                          *)
OjoInput ==
  /\ ojo_pc = "idle"
  /\ fileContent' \in Texts
  /\ scan_offset' \in 0..MaxOffset
  /\ scan_reg' \in OjoRegexes
  /\ scan_dual' = (scan_reg' = "regDualLicense")
  /\ ojo_pc' = "ready"
  /\ UNCHANGED << scan_result, licenseNames, cs_s, cs_pos, cs_results, cs_pc >>
  /\ UNCHANGED << sched_vars, sig_vars >>

ScanStringCall ==
  /\ ojo_pc = "ready"
  /\ scan_result' = scanString(fileContent, scan_reg, <<>>, scan_offset, scan_dual)
  /\ ojo_pc' = "scanned"
  /\ UNCHANGED << fileContent, scan_reg, scan_dual, scan_offset, licenseNames,
                  cs_s, cs_pos, cs_results, cs_pc >>
  /\ UNCHANGED << sched_vars, sig_vars >>

ProcessFileCall ==
  /\ ojo_pc = "ready"
  /\ licenseNames' = processFile(fileContent)
  /\ ojo_pc' = "processed"
  /\ UNCHANGED << fileContent, scan_reg, scan_dual, scan_offset, scan_result,
                  cs_s, cs_pos, cs_results, cs_pc >>
  /\ UNCHANGED << sched_vars, sig_vars >>

OjoNext ==
  \/ OjoInput
  \/ ScanStringCall
  \/ ProcessFileCall

OjoSpec == Init /\ [][OjoNext]_vars

(* ---------------------------------------------------------------------- *)
(* hCopyrightScanner: the scan for copyright statements                    *)
(* ---------------------------------------------------------------------- *)
(* Characters of a string: "c" stands for a copyright keyword, "x" for the *)
(* text that makes a keyword an exception, "w" for a word, "\n" for the    *)
(* end of a line.                                                          *)
CsChars == {"c", "x", "w", "\n"}

Strings == UNION {[1..n -> CsChars] : n \in 0..MaxString}

(* The character a pointer into the buffer reads; g is what the memory     *)
(* before the buffer holds.                                                *)
Deref(str, i, g) == IF i < 0 THEN g ELSE CharAt(str, i)

(* rx::u32regex_search(pos, end, matches, regCopyright): the position of   *)
(* the leftmost keyword at or after pos, or -2 when there is none.         *)
SearchCopyright(str, pos, g) ==
  LET c == {i \in pos..(Len(str) - 1) : Deref(str, i, g) = "c"}
  IN IF c = {} THEN -2 ELSE Least(c)

(* rx::u32regex_match(foundPos, end, regException)                         *)
MatchException(str, foundPos, g) ==
  foundPos + 1 < Len(str) /\ Deref(str, foundPos + 1, g) = "x"

(* The searches and the match on one line [b, e) with b <= e.              *)
SearchSpdxCopyright(str, b, e) == b < e /\ CharAt(str, b) = "c"

SearchSimpleCopyright(str, b, e) == \E i \in b..(e - 1) : CharAt(str, i) = "c"

MatchNonBlank(str, b, e) == \E i \in b..(e - 1) : CharAt(str, i) \in {"w", "x"}

CopyrightType == "statement"

match(st, e, type) == [start |-> st, end |-> e, type |-> type]

(* The loop over the lines that follow the statement, from j.  The result  *)
(* is the set of outcomes [j, fault]: on a line whose end lies before its  *)
(* beginning the three regex calls read outside the string, and they may   *)
(* fault, report the end of the statement, or report a line to go on with. *)
RECURSIVE LineLoop(_, _, _)
LineLoop(str, j, passes) ==
  IF j = Len(str) THEN {[j |-> j, fault |-> FALSE]}
  ELSE IF passes = 0 THEN {[j |-> j, fault |-> TRUE]}
  ELSE
    LET beginOfLine  == j + 1
        posEndOfLine == indexOf(str, "\n", beginOfLine, Len(str) - beginOfLine)
        endOfLine    == posEndOfLine
    IN IF endOfLine < beginOfLine
         THEN {[j |-> j, fault |-> TRUE], [j |-> j, fault |-> FALSE]}
              \cup LineLoop(str, endOfLine, passes - 1)
         ELSE IF SearchSpdxCopyright(str, beginOfLine, endOfLine)
           THEN {[j |-> j, fault |-> FALSE]}
         ELSE IF SearchSimpleCopyright(str, beginOfLine, endOfLine)
                 \/ ~MatchNonBlank(str, beginOfLine, endOfLine)
           THEN {[j |-> j, fault |-> FALSE]}
         ELSE LineLoop(str, endOfLine, passes - 1)

(* auto j = begin + linePos, as a position                                 *)
LineEnd(str, foundPos) == indexOf(str, "\n", foundPos, Len(str) - foundPos)

(* The match pushed for the statement at foundPos that ends at j.          *)
StatementMatch(foundPos, j) ==
  IF j - foundPos >= 301 THEN match(foundPos, foundPos + 300, CopyrightType)
  ELSE match(foundPos, j, CopyrightType)

(* A string is handed to ScanString.                                       *)
ScanStringInput ==
  /\ cs_pc = "idle"
  /\ cs_s' \in Strings
  /\ cs_pos' = 0
  /\ cs_results' = <<>>
  /\ cs_pc' = "loop"
  /\ UNCHANGED << fileContent, scan_reg, scan_dual, scan_offset, scan_result,
                  licenseNames, ojo_pc >>
  /\ UNCHANGED << sched_vars, sig_vars >>

(* while (pos != end) is left: pos is end, or no statement is found.       *)
ScanStringEnds ==
  /\ cs_pc = "loop"
  /\ \E g \in CsChars :
       cs_pos = Len(cs_s) \/ SearchCopyright(cs_s, cs_pos, g) = -2
  /\ cs_pc' = "done"
  /\ UNCHANGED << cs_s, cs_pos, cs_results >>
  /\ UNCHANGED << fileContent, scan_reg, scan_dual, scan_offset, scan_result,
                  licenseNames, ojo_pc >>
  /\ UNCHANGED << sched_vars, sig_vars >>

(* One pass of while (pos != end) that finds an exception.                 *)
ScanStringSkips ==
  /\ cs_pc = "loop"
  /\ cs_pos # Len(cs_s)
  /\ \E g \in CsChars :
       LET foundPos == SearchCopyright(cs_s, cs_pos, g)
       IN /\ foundPos # -2
          /\ MatchException(cs_s, foundPos, g)
          /\ cs_pos' = foundPos + 1
  /\ UNCHANGED << cs_s, cs_results, cs_pc >>
  /\ UNCHANGED << fileContent, scan_reg, scan_dual, scan_offset, scan_result,
                  licenseNames, ojo_pc >>
  /\ UNCHANGED << sched_vars, sig_vars >>

(* One pass of while (pos != end) that finds a statement and pushes it.    *)
ScanStringPushes ==
  /\ cs_pc = "loop"
  /\ cs_pos # Len(cs_s)
  /\ Len(cs_results) < MaxMatches
  /\ \E g \in CsChars :
       LET foundPos == SearchCopyright(cs_s, cs_pos, g)
       IN /\ foundPos # -2
          /\ ~MatchException(cs_s, foundPos, g)
          /\ LET linePos == LineEnd(cs_s, foundPos)
                 ends    == IF linePos = -1 THEN {[j |-> linePos, fault |-> FALSE]}
                            ELSE LineLoop(cs_s, linePos, MaxLinePasses)
             IN \E o \in ends :
                  IF o.fault
                    THEN /\ cs_pc' = "fault"
                         /\ UNCHANGED << cs_pos, cs_results >>
                    ELSE /\ cs_results' = Append(cs_results, StatementMatch(foundPos, o.j))
                         /\ cs_pos' = o.j
                         /\ UNCHANGED cs_pc
  /\ UNCHANGED cs_s
  /\ UNCHANGED << fileContent, scan_reg, scan_dual, scan_offset, scan_result,
                  licenseNames, ojo_pc >>
  /\ UNCHANGED << sched_vars, sig_vars >>

CopyscanNext ==
  \/ ScanStringInput
  \/ ScanStringEnds
  \/ ScanStringSkips
  \/ ScanStringPushes

CopyscanSpec == Init /\ [][CopyscanNext]_vars

(* ---------------------------------------------------------------------- *)
(* Claims about the scheduling tick                                       *)
(* ---------------------------------------------------------------------- *)
Live == DOMAIN agents

IsExclusive(p) == "EXCLUSIVE" \in agents[p].type.special

(* C1: exclusivity.  In every reachable state, a live agent whose meta     *)
(* agent has the EXCLUSIVE flag is the only live agent, also after a tick  *)
(* that started with no live agents, started agents of non-exclusive jobs  *)
(* and then popped an EXCLUSIVE job from the same queue.                   *)
C1_Exclusivity == \A p \in Live : IsExclusive(p) => Live = {p}

Starts == {observed.starts[i] : i \in 1..Len(observed.starts)}

(* C2: per-type cap.  After every tick every registered meta agent has     *)
(* 0 <= run_count <= max_run, and no start of the tick, the deferred start *)
(* of a held EXCLUSIVE job included, was for a job whose meta agent        *)
(* already had run_count >= max_run.                                       *)
C2_PerTypeCap ==
  /\ pc = "idle" =>
       \A n \in DOMAIN meta_agents :
         0 <= meta_agents[n].run_count /\ meta_agents[n].run_count <= meta_agents[n].max_run
  /\ \A s \in Starts : s.meta # "" => s.run_count < s.max_run

RECURSIVE SumRunning(_, _)
SumRunning(hl, names) ==
  IF names = {} THEN 0
  ELSE LET n == CHOOSE x \in names : TRUE
       IN hl[n].running + SumRunning(hl, names \ {n})

LiveOfType(n) == {p \in Live : agents[p].type.name = n}

(* C4: the running counters of the registered hosts add up to the number   *)
(* of live agents, and the run_count of every registered meta agent is the *)
(* number of live agents of its type, also across configuration reloads.   *)
C4_CounterConsistency ==
  /\ SumRunning(host_list, DOMAIN host_list) = Cardinality(Live)
  /\ \A n \in DOMAIN meta_agents : meta_agents[n].run_count = Cardinality(LiveOfType(n))

Sorted(q, jl) == \A i, k \in 1..Len(q) : i < k => JobBefore(jl, q[i], q[k])

(* The job a tick found held when it was entered, as a sequence.           *)
HeldAtEntry == IF observed.job = NULL THEN <<>> ELSE << observed.job >>

StartedJobs == [i \in 1..Len(observed.starts) |-> observed.starts[i].job]

JobA == [agent_type |-> "copyright", required_host |-> "", priority |-> 5]

JobC == [agent_type |-> "copyright", required_host |-> "", priority |-> 9]

RowOf(j) == [agent_type |-> j.agent_type, required_host |-> j.required_host,
             priority |-> j.priority]

(* Jobs A, B, C are queued together on one host with max 1 and one meta    *)
(* agent with max_run 1.                                                   *)
ScenarioABC ==
  /\ Len(job_list) = 3
  /\ RowOf(job_list[1]) = JobA /\ RowOf(job_list[2]) = JobA /\ RowOf(job_list[3]) = JobC
  /\ job_queue = << 3, 1, 2 >>
  /\ DOMAIN host_list = {"localhost"} /\ host_list["localhost"].max = 1
  /\ "copyright" \in DOMAIN meta_agents /\ meta_agents["copyright"].max_run = 1

OrderCAB == dispatched \in { <<>>, << 3 >>, << 3, 1 >>, << 3, 1, 2 >> }

(* C7: the queue is ordered by priority descending then id ascending; a    *)
(* tick removes only a prefix of the queue, in queue order; the jobs a     *)
(* tick starts are, in order, the job it held followed by the jobs it      *)
(* removed; and jobs A, B, C of the scenario are dispatched as C, A, B.    *)
C7_QueueOrder ==
  /\ [](Sorted(job_queue, job_list))
  /\ [](pc # "update" => observed.queue = observed.popped \o job_queue)
  /\ [](pc # "update" =>
          /\ Len(StartedJobs) <= Len(HeldAtEntry \o observed.popped)
          /\ StartedJobs = SubSeq(HeldAtEntry \o observed.popped, 1, Len(StartedJobs)))
  /\ [](ScenarioABC => []OrderCAB)

(* Jobs A, B, C were queued together under the one-host configuration and *)
(* all three have been dispatched.                                         *)
C7_Witness ==
  /\ pc = "idle" /\ gen = 1
  /\ Len(job_list) = 3
  /\ RowOf(job_list[1]) = JobA /\ RowOf(job_list[2]) = JobA /\ RowOf(job_list[3]) = JobC
  /\ DOMAIN host_list = {"localhost"} /\ host_list["localhost"].max = 1
  /\ "copyright" \in DOMAIN meta_agents /\ meta_agents["copyright"].max_run = 1
  /\ dispatched = << 3, 1, 2 >>

ZeroObserved == observed.n_agents = 0 /\ observed.n_jobs = 0

(* C8: a tick entered with a held job removes nothing from the queue and   *)
(* starts at most the held job; a tick entered under lockout that does not *)
(* observe zero agents and zero active jobs removes and starts nothing; a  *)
(* job that stays held is the last one removed and is not started; and the *)
(* start of a held job happens only in a tick that observed zero agents    *)
(* and zero active jobs.                                                   *)
C8_ExclusiveDrain ==
  pc # "update" =>
    /\ observed.job # NULL =>
         /\ observed.popped = <<>>
         /\ \A s \in Starts : s.job = observed.job /\ s.deferred
    /\ (observed.lockout /\ ~ZeroObserved) =>
         observed.popped = <<>> /\ observed.starts = <<>>
    /\ (job # NULL /\ pc = "idle") =>
         /\ job_list[job].status = "QUEUED"
         /\ \A i \in 1..Len(job_queue) : job_queue[i] # job
         /\ observed.job = NULL => (observed.popped # <<>>
                                      /\ observed.popped[Len(observed.popped)] = job)
    /\ \A s \in Starts : s.deferred => ZeroObserved

(* A job held since an earlier tick was started by a tick that observed    *)
(* zero agents and zero active jobs, and the lockout is set.               *)
C8_Witness ==
  /\ pc = "idle" /\ observed.job # NULL /\ lockout
  /\ \E s \in Starts : s.deferred /\ s.job = observed.job

MetaOfJob(j) == g_tree_lookup(meta_agents, job_list[j].agent_type, NullMetaAgent)

(* An EXCLUSIVE job is at the head of the queue, or was removed from it    *)
(* and is held, while agents are live.                                     *)
ExclusiveWaiting(j) ==
  /\ pc = "idle" /\ Live # {} /\ j \in 1..Len(job_list)
  /\ job_list[j].status = "QUEUED"
  /\ is_meta_special(MetaOfJob(j), "EXCLUSIVE")
  /\ job = j \/ (job = NULL /\ job_queue # <<>> /\ Head(job_queue) = j)

StartedAlone(j) == \E s \in Starts : s.job = j /\ s.live = 0

(* The head of the queue a tick was entered with can be placed when no     *)
(* agent is live.                                                          *)
HeadPlaceable ==
  /\ observed.queue # <<>>
  /\ LET j  == Head(observed.queue)
         ma == MetaOfJob(j)
     IN /\ ma # NullMetaAgent /\ ma.max_run > 0
        /\ job_list[j].status # "FAILED"
        /\ IF is_meta_special(ma, "LOCAL") THEN LOCAL_HOST \in DOMAIN host_list
           ELSE IF job_list[j].required_host # ""
                  THEN job_list[j].required_host \in DOMAIN host_list
                  ELSE host_queue # <<>>

(* C9: an EXCLUSIVE job that is at the head of the queue, or held, while   *)
(* agents are live is eventually started with no other agent live; no      *)
(* agent of an EXCLUSIVE meta agent is started while another agent is      *)
(* live; and the tick that observes zero agents and zero active jobs under *)
(* lockout clears the lockout and starts the head of the queue.            *)
C9_ExclusiveProgress ==
  /\ \A j \in 1..MaxJobs : ExclusiveWaiting(j) ~> StartedAlone(j)
  /\ [](\A s \in Starts : "EXCLUSIVE" \in s.special => s.live = 0)
  /\ []((pc = "idle" /\ observed.lockout /\ ZeroObserved) =>
          /\ lockout => \E s \in Starts : s.deferred
          /\ HeadPlaceable => observed.starts # <<>>)

(* C10: an agent of a meta agent with the LOCAL flag is started only on    *)
(* the registered host "localhost" and only while that host has a free     *)
(* slot; while "localhost" is full, a LOCAL job at the head of the queue   *)
(* stays QUEUED and no agent is started for it.                            *)
C10_LocalPinning ==
  /\ \A s \in Starts : "LOCAL" \in s.special =>
        s.host = LOCAL_HOST /\ s.registered /\ s.running < s.max
  /\ (/\ pc = "idle" /\ job_queue # <<>>
      /\ is_meta_special(g_tree_lookup(meta_agents, job_list[Head(job_queue)].agent_type,
                                       NullMetaAgent), "LOCAL")
      /\ LOCAL_HOST \in DOMAIN host_list /\ HostFull(host_list[LOCAL_HOST]))
     => /\ job_list[Head(job_queue)].status = "QUEUED"
        /\ \A s \in Starts : s.job # Head(job_queue)

InQueue(j) == \E k \in 1..Len(job_queue) : job_queue[k] = j

Failed == {observed.failed[i] : i \in 1..Len(observed.failed)}

(* C11: a job the tick failed because its pinned host is not registered    *)
(* has status FAILED and the missing-host message, no agent was started    *)
(* for it, and it is no longer in the queue, so the job behind it is the   *)
(* head.                                                                   *)
C11_MissingPinnedHost ==
  pc # "update" =>
    \A j \in Failed :
      /\ job_list[j].status = "FAILED"
      /\ job_list[j].message = MissingHostMessage
      /\ \A s \in Starts : s.job # j
      /\ ~InQueue(j)

(* The tick that just ran entered its placement loop.                      *)
LoopEntered ==
  /\ pc # "update" /\ ~observed.terminated
  /\ observed.job = NULL
  /\ observed.lockout => ZeroObserved

(* C12: with no host registered the tick completes normally; an unpinned   *)
(* non-LOCAL head job stays QUEUED at the head and nothing is started for  *)
(* it; a LOCAL head job is failed with the missing-host message.           *)
C12_EmptyHostList ==
  /\ pc # "crashed"
  /\ (LoopEntered /\ DOMAIN host_list = {} /\ observed.queue # <<>>) =>
       LET j  == Head(observed.queue)
           ma == MetaOfJob(j)
       IN /\ \A s \in Starts : s.job # j
          /\ (~is_meta_special(ma, "LOCAL") /\ job_list[j].required_host = "") =>
               (job_list[j].status = "QUEUED" /\ job_queue # <<>> /\ Head(job_queue) = j)
          /\ (is_meta_special(ma, "LOCAL") /\ ~isMaxLimitReached(ma)) =>
               (job_list[j].status = "FAILED" /\ job_list[j].message = MissingHostMessage)

Popped == {observed.popped[i] : i \in 1..Len(observed.popped)}

(* C13: no tick starts an agent for, or removes from the queue, a job      *)
(* whose meta agent has max_run = 0.                                       *)
C13_MaxRunZero ==
  pc # "update" =>
    /\ \A s \in Starts : s.meta # "" => s.max_run # 0
    /\ \A j \in Popped : MetaOfJob(j) # NullMetaAgent => MetaOfJob(j).max_run # 0

(* C14: once closing is set, no tick starts an agent.                      *)
C14_CloseRefusesPlacement == closing => observed.starts = <<>>

(* C17: the loop is terminated only by a tick that observed closing, zero  *)
(* live agents and zero active jobs; at termination no agent is live.      *)
C17_TerminationCondition ==
  /\ pc = "terminated" =>
       /\ closing /\ observed.terminated /\ ZeroObserved
       /\ Live = {} /\ active_jobs(agents) = 0
  /\ observed.terminated => pc = "terminated"

(* The loop terminated after agents had been started and had exited.       *)
C17_Witness == pc = "terminated" /\ dispatched # <<>>

HasLiveAgent(j) == \E p \in Live : agents[p].owner = j

(* C20: after every tick a job is in the queue exactly when its status is  *)
(* QUEUED and it has no live agent.                                        *)
C20_QueueMembership ==
  pc = "idle" =>
    \A j \in 1..Len(job_list) :
      InQueue(j) <=> (job_list[j].status = "QUEUED" /\ ~HasLiveAgent(j))

HasNoKill(p) == "NOKILL" \in agents[p].type.special

CloseEvent(killed) == [event |-> "scheduler_close_event", killed |-> killed]

Emitted(e) == {i \in 1..Len(last_drain.emitted) : last_drain.emitted[i] = e}

(* C15: a drain that observed SIGTERM enqueued a Close with killed = 0,    *)
(* one that observed SIGQUIT a Close with killed = 1, the graceful Close   *)
(* before the forced one; the handler of a graceful Close signals no       *)
(* agent, the handler of a forced Close signals every live agent without   *)
(* NOKILL at once; and the loop is terminated only with no agent live.     *)
C15_GracefulVersusForced ==
  /\ "SIGTERM" \in last_drain.mask => Emitted(CloseEvent(FALSE)) # {}
  /\ "SIGQUIT" \in last_drain.mask => Emitted(CloseEvent(TRUE)) # {}
  /\ \A i \in Emitted(CloseEvent(FALSE)), k \in Emitted(CloseEvent(TRUE)) : i < k
  /\ (last_close.handled /\ ~last_close.killed) => last_close.signalled = {}
  /\ (pc = "update" /\ last_close.handled /\ last_close.killed) =>
       \A p \in Live : ~HasNoKill(p) => p \in last_close.signalled
  /\ pc = "terminated" => Live = {}

C15_Witness ==
  /\ last_drain.mask = {"SIGTERM", "SIGQUIT"}
  /\ pc = "update"
  /\ last_close.handled
  /\ last_close.killed
  /\ Live # {}
  /\ last_close.signalled = Live

StartsOf(j) == {i \in 1..Len(dispatched) : dispatched[i] = j}

(* C21: every job is passed to agent_init at most once, in the placement   *)
(* loop or from the hold slot; a job that is held or still in the queue    *)
(* has not been passed to agent_init.                                      *)
C21_AtMostOneStart ==
  /\ \A j \in 1..Len(job_list) : Cardinality(StartsOf(j)) <= 1
  /\ job # NULL => StartsOf(job) = {}
  /\ \A j \in 1..Len(job_list) : InQueue(j) => StartsOf(j) = {}

C21_Witness ==
  /\ pc = "idle"
  /\ \E s \in Starts : s.deferred
  /\ Len(dispatched) >= 3
  /\ \A j \in 1..Len(job_list) : Cardinality(StartsOf(j)) = 1

(* What a registry holds for its names: the configured values and the    *)
(* counters.                                                               *)
MetaView(tree) ==
  [n \in DOMAIN tree |-> [command |-> tree[n].command, max_run |-> tree[n].max_run,
                          special |-> tree[n].special, run_count |-> tree[n].run_count]]

HostView(tree) ==
  [n \in DOMAIN tree |-> [max |-> tree[n].max, running |-> tree[n].running]]

FailedSnapshots == {c \in ConfigSnapshots : c.hosts = FetchFailed \/ c.agents = FetchFailed}

(* C22: a reload one of whose fetches fails leaves the meta agent registry *)
(* and the host registry as they were before the reload.                   *)
C22_FailedReloadKeepsConfig ==
  [][\A c \in FailedSnapshots :
       (sysconfig /\ scheduler_config_event(c.hosts, c.agents)) =>
         /\ MetaView(meta_agents') = MetaView(meta_agents)
         /\ HostView(host_list') = HostView(host_list)]_vars

Reloaded(c, g) ==
  LoadedConfig(sysconfig, host_list, meta_agents, host_queue, c.hosts, c.agents, g)

ReloadedTwice(c, g) ==
  LET r == Reloaded(c, g)
  IN LoadedConfig(TRUE, r.host_list, r.meta_agents, r.host_queue, c.hosts, c.agents, g + 1)

(* C23: in every state, a reload followed by a reload of the same          *)
(* snapshot leaves the meta agent registry, the host registry and the      *)
(* host queue as they are after the first of the two.                      *)
C23_ReloadIdempotent ==
  \A c \in ConfigSnapshots :
    LET r1 == Reloaded(c, gen + 1)
        r2 == ReloadedTwice(c, gen + 1)
    IN /\ MetaView(r2.meta_agents) = MetaView(r1.meta_agents)
       /\ HostView(r2.host_list) = HostView(r1.host_list)
       /\ r2.host_queue = r1.host_queue

(* The state right after a reload, with agents of the previous             *)
(* configuration live, that a further reload of the same snapshot          *)
(* reproduces.                                                             *)
C23_Witness ==
  /\ gen = MaxReloads
  /\ pc = "update"
  /\ Live # {}
  /\ \E c \in ConfigSnapshots :
       /\ c.hosts # FetchFailed
       /\ c.agents # FetchFailed
       /\ MetaView(meta_agents) = MetaView(Reloaded(c, gen + 1).meta_agents)
       /\ HostView(host_list) = HostView(Reloaded(c, gen + 1).host_list)
       /\ host_queue = Reloaded(c, gen + 1).host_queue

(* C24: after a configuration load, the meta agent registered for every   *)
(* entry of the agent snapshot has the command, the max and exactly the    *)
(* special flags of that entry's own keys.                                 *)
C24_PerAgentConfig ==
  [][\A c \in ConfigSnapshots :
       scheduler_config_event(c.hosts, c.agents) =>
         \A i \in 1..Len(c.agents) :
           LET e == c.agents[i]
           IN /\ e.name \in DOMAIN meta_agents'
              /\ meta_agents'[e.name].command = e.command
              /\ "max" \in DOMAIN e => meta_agents'[e.name].max_run = e.max
              /\ meta_agents'[e.name].special = e.special]_vars

(* C25: when the drain has signalled the agent_death_event of a child,     *)
(* every line the child wrote to its stdout has been read and its output   *)
(* event posted: no output event of the child is queued behind its death.  *)
C25_DeathAfterOutput ==
  \A p \in 1..Len(children) : children[p].state = "reaped" => children[p].unread = 0

(* C26: a job becomes STARTED only from QUEUED and COMPLETE only from      *)
(* STARTED, a COMPLETE job stays COMPLETE and no job becomes QUEUED        *)
(* again; a death event for a pid that is no longer in the pid map leaves  *)
(* the hosts, the meta agents, the pid map and the jobs unchanged.         *)
C26_SingleCompletion ==
  [][/\ \A j \in 1..Len(job_list) :
          LET a == job_list[j].status
              b == job_list'[j].status
          IN /\ (b = "STARTED" /\ a # "STARTED") => a = "QUEUED"
             /\ (b = "COMPLETE" /\ a # "COMPLETE") => a = "STARTED"
             /\ a = "COMPLETE" => b = "COMPLETE"
             /\ b = "QUEUED" => a = "QUEUED"
     /\ \A pid \in (1..Len(dispatched)) \ DOMAIN agents :
          agent_death_event(pid, 0) =>
            UNCHANGED << host_list, meta_agents, agents, job_list >>]_vars

ConfigEvents ==
  {i \in 1..Len(last_drain.emitted) : last_drain.emitted[i].event = "scheduler_config_event"}

(* C27: a drain that observed SIGHUP did not run the configuration load    *)
(* itself; it put exactly one configuration event in the event queue,      *)
(* behind the death and close events of the same drain.                    *)
C27_SighupQueued ==
  "SIGHUP" \in last_drain.mask =>
    /\ ~last_drain.config_ran
    /\ Cardinality(ConfigEvents) = 1
    /\ \A i \in ConfigEvents, k \in 1..Len(last_drain.emitted) : k \notin ConfigEvents => k < i

UpdateEmitted ==
  \E i \in 1..Len(last_drain.emitted) :
    /\ last_drain.emitted[i] = [event |-> "agent_update_event"]
    /\ i < Len(last_drain.emitted)
    /\ last_drain.emitted[i + 1] = [event |-> "database_update_event"]

(* C28: a drain that follows the delivery of SIGALRM signals the agent     *)
(* update and the database update, whether or not the update interval has  *)
(* passed.                                                                 *)
C28_AlarmTriggersUpdate ==
  (last_drain.ended /\ "SIGALRM" \in (last_drain.mask \cup lost)) => UpdateEmitted

(* C29: a drain signals the update pair exactly when more than the update *)
(* interval has passed since last_update (set at the first drain, or at    *)
(* the last pair), it signals at most one pair, and last_update is then    *)
(* the time of the drain; otherwise last_update keeps its value.           *)
C29_PeriodicUpdate ==
  [][scheduler_signal_translate =>
       LET lu       == IF last_update = 0 THEN now ELSE last_update
           pairs    == {i \in 1..Len(last_drain'.emitted) :
                          last_drain'.emitted[i] = [event |-> "agent_update_event"]}
           polls    == {i \in 1..Len(last_drain'.emitted) :
                          last_drain'.emitted[i] = [event |-> "database_update_event"]}
       IN /\ (pairs # {}) <=> (now - lu > CONF_agent_update_interval)
          /\ Cardinality(pairs) <= 1
          /\ polls = {i + 1 : i \in pairs}
          /\ last_update' = IF pairs # {} THEN now ELSE lu
          /\ last_update = 0 => pairs = {}]_vars

(* A drain exactly at last_update + interval that signalled no pair, and   *)
(* a drain one second later that signalled one.                            *)
C29_Witness ==
  /\ last_drain.ended
  /\ UpdateEmitted
  /\ last_update = now
  /\ now > 1 + CONF_agent_update_interval

(* What every tick does with the startup flags: it signals one database   *)
(* update and clears s_startup exactly when it is entered with s_startup   *)
(* set and no agent live; a tick that runs to its end clears s_pause and,  *)
(* when s_pause was set, sets s_startup; s_pause is never set again.       *)
StartupFlags ==
  /\ s_pause' => s_pause
  /\ TickRuns =>
       LET startup == s_startup /\ DOMAIN agents = {}
       IN /\ db_polls' = db_polls + (IF startup THEN 1 ELSE 0)
          /\ pc' = "idle" =>
               /\ ~s_pause'
               /\ s_startup' <=> (s_pause \/ (s_startup /\ ~startup))

C31_LockoutAtHold == (pc # "crashed" /\ job # NULL) => lockout

(* uint8_t max = -1: the value of max before any entry has assigned it.    *)
DefaultMax == 255

(* C32: after a configuration load every agent entry that carries a max    *)
(* key is registered with max_run equal to the configured value, and an    *)
(* entry without a max key keeps the default instead of the value of       *)
(* another entry.                                                          *)
C32_ConfiguredMax ==
  [][\A c \in ConfigSnapshots :
       scheduler_config_event(c.hosts, c.agents) =>
         \A i \in 1..Len(c.agents) :
           LET e == c.agents[i]
           IN /\ e.name \in DOMAIN meta_agents'
              /\ meta_agents'[e.name].max_run =
                   IF "max" \in DOMAIN e THEN e.max ELSE DefaultMax]_vars

(* The head of the job queue cannot be placed: its meta agent is at its    *)
(* cap, or its LOCAL or pinned host is registered and full, or it may run  *)
(* anywhere and no host of the round-robin queue has a free slot.          *)
HeadBlocked ==
  /\ job_queue # <<>>
  /\ LET jb == job_list[Head(job_queue)]
         ma == g_tree_lookup(meta_agents, jb.agent_type, NullMetaAgent)
     IN \/ isMaxLimitReached(ma)
        \/ /\ is_meta_special(ma, "LOCAL")
           /\ LOCAL_HOST \in DOMAIN host_list
           /\ ~(host_list[LOCAL_HOST].running < host_list[LOCAL_HOST].max)
        \/ /\ ~is_meta_special(ma, "LOCAL")
           /\ jb.required_host # ""
           /\ jb.required_host \in DOMAIN host_list
           /\ ~(host_list[jb.required_host].running < host_list[jb.required_host].max)
        \/ /\ ~is_meta_special(ma, "LOCAL")
           /\ jb.required_host = ""
           /\ get_host(host_queue, host_list) = 0

(* The tick reaches the placement loop: it does not terminate the event    *)
(* loop, no job is held, and lockout is clear or released by this tick.    *)
LoopReached ==
  LET n_agents == Cardinality(DOMAIN agents)
      n_jobs   == active_jobs(agents)
  IN /\ ~(closing /\ n_agents = 0 /\ n_jobs = 0)
     /\ job = NULL
     /\ (~lockout \/ (n_agents = 0 /\ n_jobs = 0))

(* C33: a tick whose placement loop finds the head of the queue blocked    *)
(* leaves the job queue, every host's running, every meta agent's          *)
(* run_count, the held job and lockout as they were when the loop was      *)
(* entered, and starts no job.                                             *)
C33_BlockedHeadFrame ==
  [][(TickRuns /\ LoopReached /\ HeadBlocked) =>
       /\ job_queue' = job_queue
       /\ \A h \in DOMAIN host_list :
            h \in DOMAIN host_list' /\ host_list'[h].running = host_list[h].running
       /\ \A m \in DOMAIN meta_agents :
            m \in DOMAIN meta_agents' /\ meta_agents'[m].run_count = meta_agents[m].run_count
       /\ job' = NULL
       /\ lockout' = FALSE
       /\ dispatched' = dispatched
       /\ agents' = agents
       /\ observed'.starts = <<>>]_vars

(* A tick has just left a blocked head in place although the job behind    *)
(* it could have been placed: the head's meta agent is at its cap, the     *)
(* second job's meta agent is not, and a host has a free slot.             *)
C33_Witness ==
  /\ pc = "idle"
  /\ LoopEntered
  /\ observed.queue = job_queue
  /\ Len(job_queue) >= 2
  /\ HeadBlocked
  /\ LET m1 == g_tree_lookup(meta_agents, job_list[job_queue[1]].agent_type, NullMetaAgent)
         m2 == g_tree_lookup(meta_agents, job_list[job_queue[2]].agent_type, NullMetaAgent)
     IN /\ isMaxLimitReached(m1)
        /\ ~isMaxLimitReached(m2)
        /\ ~is_meta_special(m2, "LOCAL")
        /\ job_list[job_queue[2]].required_host = ""
        /\ get_host(host_queue, host_list) # 0

(* C34: when the tick terminates the event loop no job is held, and every  *)
(* job that was removed from the queue has been started or failed.         *)
C34_NoJobLostAtShutdown ==
  pc = "terminated" =>
    /\ job = NULL
    /\ \A j \in 1..Len(job_list) :
         InQueue(j) \/ StartsOf(j) # {} \/ job_list[j].status = "FAILED"

(* C35: the host on which a held job is started is, at the time of the     *)
(* start, the entry registered under its name in the host registry.        *)
C35_HeldHostValid == \A s \in Starts : s.deferred => s.registered

(* The head of the queue names an agent type that is not registered, and   *)
(* a host is there for it: its pinned host is registered and has a free    *)
(* slot, or it is not pinned and the round-robin queue has a free host.    *)
UnregisteredHead ==
  /\ job_queue # <<>>
  /\ job_list[Head(job_queue)].agent_type \notin DOMAIN meta_agents
  /\ LET rh == job_list[Head(job_queue)].required_host
     IN IF rh # ""
          THEN rh \in DOMAIN host_list /\ host_list[rh].running < host_list[rh].max
          ELSE get_host(host_queue, host_list) # 0

(* The host the tick has to choose for the head of the queue.              *)
HeadHost ==
  LET rh == job_list[Head(job_queue)].required_host
  IN IF rh # "" THEN rh ELSE host_queue[get_host(host_queue, host_list)]

C37_NoDuplicates ==
  ojo_pc = "processed" =>
    \A i, k \in 1..Len(licenseNames) :
      i # k => licenseNames[i].content # licenseNames[k].content

(* The positions of the groups the successive searches find in text.       *)
RECURSIVE GroupsFrom(_, _, _)
GroupsFrom(text, reg, pos) ==
  IF pos = Len(text) THEN <<>>
  ELSE LET res == u32regex_search(text, pos, reg)
       IN IF ~res.found THEN <<>>
          ELSE << [index |-> res.g_first, len |-> res.g_len] >>
                 \o GroupsFrom(text, reg, res.second)

(* C38: every match one call of scanString appends has start = the offset  *)
(* argument + the index of the matched group in text, len = the length of  *)
(* the group and end = start + len, the first match and every later one.   *)
C38_MatchOffsets ==
  ojo_pc = "scanned" =>
    LET groups == GroupsFrom(fileContent, scan_reg, 0)
    IN /\ Len(scan_result) = Len(groups)
       /\ \A k \in 1..Len(groups) :
            /\ scan_result[k].start = scan_offset + groups[k].index
            /\ scan_result[k].len = groups[k].len
            /\ scan_result[k].end = scan_result[k].start + scan_result[k].len

(* C39: during a scan of hCopyrightScanner::ScanString the scan position   *)
(* stays within [0, length(s)], no call reads outside the string, and      *)
(* every match pushed has 0 <= start <= end <= length(s) and               *)
(* end - start <= 300.                                                     *)
C39_ScanBounded ==
  /\ cs_pc # "fault"
  /\ cs_pos \in 0..Len(cs_s)
  /\ \A k \in 1..Len(cs_results) :
       /\ 0 <= cs_results[k].start
       /\ cs_results[k].start <= cs_results[k].end
       /\ cs_results[k].end <= Len(cs_s)
       /\ cs_results[k].end - cs_results[k].start <= 300

TestLive == {p \in Live : agents[p].owner = NULL}

(* C19: a tick that is entered with s_startup set and a test agent live    *)
(* starts no agent for a job of the job list, also when a database poll    *)
(* of the periodic update has inserted jobs during the startup phase.      *)
C19_StartupDrain ==
  [][(pc = "update" /\ s_startup /\ TestLive # {}) =>
       \A p \in DOMAIN agents' \ DOMAIN agents : agents'[p].owner = NULL]_vars

IsStarted(j) == j \in 1..Len(job_list) /\ job_list[j].status = "STARTED"

(* C18: if the agent of every started job eventually exits, then once a    *)
(* Close event has been handled the loop is eventually terminated, also    *)
(* when rows keep arriving in the job table.                               *)
C18_ShutdownLiveness ==
  (\A j \in 1..MaxJobs : IsStarted(j) ~> ~IsStarted(j)) => (closing ~> pc = "terminated")

(* ---------------------------------------------------------------------- *)
(* Claims about the signal bridge                                          *)
(* ---------------------------------------------------------------------- *)
DrainedKinds == {"SIGCHLD", "SIGTERM", "SIGQUIT", "SIGHUP"}

(* C5: no signal notification is lost between two drains: a kind among     *)
(* SIGCHLD, SIGTERM, SIGQUIT, SIGHUP that was delivered after one drain     *)
(* copied the mask is in the copy the next drain makes.                    *)
C5_NoLostSignal == lost \cap DrainedKinds = {}

DeathsEmitted ==
  {[pid |-> last_drain.emitted[i].pid, status |-> last_drain.emitted[i].status] :
     i \in {k \in 1..Len(last_drain.emitted) :
              last_drain.emitted[k].event = "agent_death_event"}}

IsDead(p) == p \in 1..Len(children) /\ children[p].state = "dead"

IsReaped(p) == p \in 1..Len(children) /\ children[p].state = "reaped"

(* C6: a drain that saw SIGCHLD emits exactly one death event, with pid    *)
(* and status, for every child dead at that time and leaves none of them   *)
(* unreaped; and every child that dies is eventually reaped.               *)
C6_CoalescedReaping ==
  /\ []("SIGCHLD" \in last_drain.mask =>
          /\ DeathsEmitted = last_drain.dead
          /\ Cardinality({k \in 1..Len(last_drain.emitted) :
                            last_drain.emitted[k].event = "agent_death_event"})
               = Cardinality(last_drain.dead)
          /\ Dead(children) = {})
  /\ \A p \in 1..MaxChildren : IsDead(p) ~> IsReaped(p)

====
